---------------------------- MODULE Spec2Model ----------------------------
(***************************************************************************)
(* sfpdcadcot: the CAD poll / filter / transform pipeline.                 *)
(*                                                                         *)
(*   CADWorker.run           classes.py 63-75   the poll loop              *)
(*   CADWorker.get_cad_feed  classes.py 56-61   pd.read_json + handle_data *)
(*   CADWorker.handle_data   classes.py 39-54   filter, sort, transform    *)
(*   call_to_cot_xml         functions.py 55-138                           *)
(*   call_to_cot             functions.py 141-144                          *)
(*                                                                         *)
(* Python values are records [t, v]: t is the Python type name, v the      *)
(* text of the value.  A timestamp string "....T08:14:.." is the pair      *)
(* <<hour, minute>>; strings of one format order as these pairs do.        *)
(* Clock readings are integers (ticks of the clock's resolution).          *)
(***************************************************************************)
EXTENDS Integers, Sequences, FiniteSets, TLC

VARIABLES
    pc,       \* where the run coroutine is: fetch, loop, put, sleep, raised
    config,   \* self.config, a dict: a function from its keys to strings
    data,     \* the DataFrame pd.read_json returned for this pass
    calls,    \* handle_data's filtered and sorted frame, in iteration order
    idx,      \* position of the for loop in calls
    event,    \* handle_data's local `event`: <<>> is None, <<e>> an event
    sent,     \* the events put_queue accepted during this pass, in order
    err,      \* the call whose exception ended run ("" while it runs)
    clock,    \* the wall clock
    t0,       \* the clock when the latest call_to_cot was entered
    lastIdx,  \* position in calls of the latest record given to call_to_cot
    result,   \* how that call ended: "event", "none", "raise" ("" before)
    rejected  \* the events put_queue refused during this pass

vars == <<pc, config, data, calls, idx, event, sent, err, clock, t0,
          lastIdx, result, rejected>>

-----------------------------------------------------------------------------
(* Bounds of the model. *)

MaxFeed == 2     \* rows in one fetched snapshot
MaxBatch == 1    \* rows of the batch a transform-only run starts from
MaxClock == 1    \* the clock stops advancing here

-----------------------------------------------------------------------------
(* Python and pandas values. *)

None_ == [t |-> "NoneType", v |-> "None"]
NaN == [t |-> "float", v |-> "nan"]
Str(s) == [t |-> "str", v |-> s]
Flt(s) == [t |-> "float", v |-> s]

\* pandas isnull / dropna: None and NaN are both missing values
IsNull(x) == x.t = "NoneType" \/ x = NaN

\* Python truth value, as filter(None, ...) tests it: nan is a non-zero float
Truthy(x) ==
    CASE x.t = "NoneType" -> FALSE
      [] x.t = "str" -> x.v # ""
      [] OTHER -> TRUE

\* int(x) of a config value: None raises TypeError
IntOf(x) ==
    CASE x.v = "0" -> 0
      [] x.v = "300" -> 300
      [] OTHER -> 0

Range(s) == {s[i] : i \in DOMAIN s}

-----------------------------------------------------------------------------
(* The feed's rows. *)

NoPoint == [t |-> "float", coordinates |-> <<>>]
Point(c) == [t |-> "dict", coordinates |-> c]

LON == Flt("-122.406296")
LAT == Flt("37.778")

\* received_datetime values: minute 14, minute 15, and a later hour
ReceivedTimes == {<<8, 14>>, <<8, 15>>, <<9, 3>>}
CloseTimes == {NaN, Str("2022-06-14T10:30:00.000")}
GoodPoints == {Point(<<LON, LAT>>)}
NullCoordPoints == {Point(<<LON, None_>>), Point(<<None_, LAT>>)}
BadPoints == {Point(<<LON>>)}
OptionalTexts(s) == {None_, NaN, Str(""), Str(s)}

Row(i, rd, cl, ip, nm, pd) ==
    [index |-> i, cad_number |-> i, received_datetime |-> rd,
     close_datetime |-> cl, intersection_point |-> ip,
     intersection_name |-> nm, police_district |-> pd,
     call_type_final |-> "853", call_type_final_desc |-> "RECOVER MISSING VEH"]

\* a row of a fetched snapshot: every combination the filter distinguishes
FeedRows(i) ==
    {Row(i, rd, cl, ip, Str("07TH ST \\ HARRISON ST"), Str("SOUTHERN")) :
        rd \in ReceivedTimes, cl \in CloseTimes,
        ip \in {NoPoint} \cup GoodPoints \cup NullCoordPoints \cup BadPoints}

\* a row that passed the filter: every combination the transform distinguishes
BatchRows(i) ==
    {Row(i, <<8, 14>>, NaN, ip, nm, pd) :
        ip \in GoodPoints \cup NullCoordPoints \cup BadPoints,
        nm \in OptionalTexts("07TH ST \\ HARRISON ST"),
        pd \in OptionalTexts("SOUTHERN")}

\* a frame of n rows whose index labels are 1..n
FeedFrames(n) ==
    {f \in [1..n -> UNION {FeedRows(i) : i \in 1..n}] :
        \A i \in 1..n : f[i].index = i}
BatchFrames(n) ==
    {f \in [1..n -> UNION {BatchRows(i) : i \in 1..n}] :
        \A i \in 1..n : f[i].index = i}

Feeds == UNION {FeedFrames(n) : n \in 0..MaxFeed}
Batches == UNION {BatchFrames(n) : n \in 1..MaxBatch}

\* self.config: any subset of the two options the transform reads
Configs ==
    {[k \in {} |-> Str("")]}
    \cup {[k \in {"COT_STALE"} |-> s] : s \in {Str("0"), Str("300")}}
    \cup {[k \in {"COT_HOST_ID"} |-> h] : h \in {Str(""), Str("TAK-SERVER")}}
    \cup {[k \in {"COT_STALE", "COT_HOST_ID"} |->
              IF k = "COT_STALE" THEN s ELSE h] :
            s \in {Str("0"), Str("300")}, h \in {Str(""), Str("TAK-SERVER")}}

\* dict.get(key, default)
Get(d, k, default) == IF k \in DOMAIN d THEN d[k] ELSE default

DEFAULT_HOST_ID == Str("pytak@localhost")

\* the poll loop's configurations: the host id does not steer the loop
LoopConfigs ==
    {c \in Configs : "COT_HOST_ID" \notin DOMAIN c
                     /\ Get(c, "COT_STALE", Str("300")) = Str("300")}

-----------------------------------------------------------------------------
(* functions.py: the transform. *)

\* line 74: lat is None or lon is None
CoordsMissing_LatOnly(lon, lat) == lat = None_
CoordsMissing(lon, lat) == lat = None_ \/ lon = None_

\* line 120: filter(None, remarks_fields)
RECURSIVE FilterTruthy(_)
FilterTruthy(fields) ==
    IF fields = <<>> THEN <<>>
    ELSE IF Truthy(Head(fields))
         THEN <<Head(fields)>> \o FilterTruthy(Tail(fields))
         ELSE FilterTruthy(Tail(fields))

\* line 120: " - ".join(...) of strings
RECURSIVE Join(_, _)
Join(sep, fields) ==
    IF fields = <<>> THEN ""
    ELSE IF Len(fields) = 1 THEN fields[1].v
    ELSE fields[1].v \o sep \o Join(sep, Tail(fields))

\* str.join raises TypeError on an item that is not a str
JoinRaises(fields) == \E i \in DOMAIN fields : fields[i].t # "str"

\* pytak.cot_time(cot_stale) read when the clock shows `now`
cot_time_NoStale(now, cot_stale) == now
cot_time(now, cot_stale) == now + cot_stale

Raised(exc) == [kind |-> "raise", exc |-> exc, ev |-> <<>>]
Returned(ev) == [kind |-> IF ev = <<>> THEN "none" ELSE "event",
                 exc |-> "", ev |-> ev]

\* lines 77-89, 118: the remarks fields, in the order they are appended
RemarksFields(call, cot_host_id) ==
    << Str(call.call_type_final \o " " \o call.call_type_final_desc),
       call.intersection_name,
       call.police_district,
       Str("CAD: " \o ToString(call.cad_number)),
       Str(cot_host_id.v) >>

\* lines 92-138: the element tree, its three times read at t1 <= t2 <= t3
EventElement(call, lon, lat, cot_stale, cot_host_id, t1, t2, t3) ==
    LET cot_uid == "SFPDCAD." \o ToString(call.cad_number)
        callsign == call.call_type_final \o " " \o call.call_type_final_desc
    IN  [version |-> "2.0", type |-> "a-u-G", uid |-> cot_uid, how |-> "m-g",
         time |-> cot_time(t1, 0),
         start |-> cot_time(t2, 0),
         stale |-> cot_time(t3, cot_stale),
         point |-> [lat |-> lat.v, lon |-> lon.v, ce |-> "9999999.0",
                    le |-> "9999999.0", hae |-> "9999999.0"],
         detail |-> [uid |-> cot_uid, Droid |-> callsign,
                     callsign |-> callsign, course |-> "9999999.0",
                     speed |-> "9999999.0",
                     remarks |-> Join(" - ",
                         FilterTruthy(RemarksFields(call, cot_host_id)))]]

\* call_to_cot_xml(call, config), lines 71-138, in the order the code runs
call_to_cot_xml(call, cfg, t1, t2, t3) ==
    LET ip == call.intersection_point
        c == ip.coordinates
    IN  IF ip.t # "dict" THEN Raised("TypeError")
        ELSE IF Len(c) # 2 THEN Raised("ValueError")
        ELSE IF CoordsMissing(c[1], c[2]) THEN Returned(<<>>)
        ELSE IF Get(cfg, "COT_STALE", None_) = None_ THEN Raised("TypeError")
        ELSE LET cot_stale == IntOf(Get(cfg, "COT_STALE", None_))
                 cot_host_id == Get(cfg, "COT_HOST_ID", DEFAULT_HOST_ID)
             IN  IF JoinRaises(FilterTruthy(RemarksFields(call, cot_host_id)))
                 THEN Raised("TypeError")
                 ELSE Returned(<<EventElement(call, c[1], c[2], cot_stale,
                                              cot_host_id, t1, t2, t3)>>)

\* an Element is false when it has no children: the event has two
ElementTruthy(e) == {"point", "detail"} \subseteq DOMAIN e

\* call_to_cot, lines 141-144: ET.tostring(cot) if cot else None
call_to_cot(call, cfg, t1, t2, t3) ==
    LET cot == call_to_cot_xml(call, cfg, t1, t2, t3)
    IN  IF cot.kind = "raise" THEN cot
        ELSE IF cot.ev # <<>> /\ ElementTruthy(cot.ev[1]) THEN Returned(cot.ev)
        ELSE Returned(<<>>)

-----------------------------------------------------------------------------
(* classes.py: handle_data's filter, lines 43-45. *)

\* line 43: data.dropna(subset='intersection_point')
DropNa(df) ==
    LET Present(r) == r.intersection_point.t = "dict"
    IN  SelectSeq(df, Present)

\* line 44: pd.to_datetime(received_datetime), then .dt.minute
MinuteOf(rd) == rd[2]

Labels(df) == {df[i].index : i \in DOMAIN df}
RowAt(df, l) == CHOOSE r \in Range(df) : r.index = l

\* line 45: calls[calls.ts.dt.minute < 15][calls.close_datetime.isnull()]:
\* both masks are computed on the dropna'd frame, and the second is matched
\* to the rows the first kept by their index labels
FilterCalls_KeepClosed(df) ==
    LET calls0 == DropNa(df)
        mask1 == [l \in Labels(calls0) |->
                     MinuteOf(RowAt(calls0, l).received_datetime) < 15]
        Keep1(r) == mask1[r.index]
    IN  SelectSeq(calls0, Keep1)
FilterCalls(df) ==
    LET calls0 == DropNa(df)
        mask1 == [l \in Labels(calls0) |->
                     MinuteOf(RowAt(calls0, l).received_datetime) < 15]
        mask2 == [l \in Labels(calls0) |->
                     IsNull(RowAt(calls0, l).close_datetime)]
        Keep1(r) == mask1[r.index]
        Keep2(r) == mask2[r.index]
    IN  SelectSeq(SelectSeq(calls0, Keep1), Keep2)

\* the order of two received_datetime strings
Later(a, b) == a[1] > b[1] \/ (a[1] = b[1] /\ a[2] > b[2])

Perms(df) ==
    LET n == Len(df)
    IN  {[i \in 1..n |-> df[p[i]]] :
            p \in {q \in [1..n -> 1..n] : \A i, j \in 1..n : q[i] = q[j] => i = j}}

\* line 45: sort_values(by='received_datetime', ascending=False); rows with
\* equal keys may come out in either order
SortValues_Ascending(df) ==
    {s \in Perms(df) : \A i, j \in DOMAIN s :
        i < j => ~Later(s[i].received_datetime, s[j].received_datetime)}
SortValues(df) ==
    {s \in Perms(df) : \A i, j \in DOMAIN s :
        i < j => ~Later(s[j].received_datetime, s[i].received_datetime)}

-----------------------------------------------------------------------------
(* classes.py: the worker. *)

Init ==
    /\ pc = "fetch"
    /\ config \in LoopConfigs
    /\ data = <<>> /\ calls = <<>> /\ idx = 1
    /\ event = <<>> /\ sent = <<>> /\ rejected = <<>>
    /\ err = "" /\ clock = 0 /\ t0 = 0 /\ lastIdx = 0 /\ result = ""

\* an exception no caller catches: handle_data, get_cad_feed and run have
\* no try, so it ends run
Propagate(origin) == pc' = "raised" /\ err' = origin

\* lines 74, 60-61, 43-45: one fetch; read_json raises or returns a frame,
\* which handle_data filters and sorts before its loop starts
Fetch ==
    /\ pc = "fetch"
    /\ \/ /\ Propagate("read_json")
          /\ UNCHANGED <<data, calls, idx, event, sent, rejected, lastIdx, result>>
       \/ \E df \in Feeds : \E sorted \in SortValues(FilterCalls(df)) :
            /\ data' = df
            /\ calls' = sorted
            /\ idx' = 1
            /\ event' = <<>> /\ sent' = <<>> /\ rejected' = <<>>
            /\ lastIdx' = 0 /\ result' = ""
            /\ pc' = "loop"
            /\ err' = err
    /\ UNCHANGED <<config, clock, t0>>

\* lines 47-52: the loop takes the next row and calls call_to_cot; the three
\* cot_time reads see the clock at t1 <= t2 <= t3
Transform ==
    /\ pc = "loop" /\ idx <= Len(calls)
    /\ \E d1, d2 \in 0..MaxClock :
        LET t1 == clock
            t2 == t1 + d1
            t3 == t2 + d2
            r == call_to_cot(calls[idx], config, t1, t2, t3)
        IN  /\ t3 <= MaxClock
            /\ t0' = clock /\ lastIdx' = idx /\ result' = r.kind
            /\ CASE r.kind = "raise" ->
                     /\ Propagate("call_to_cot")
                     /\ UNCHANGED <<idx, event, clock>>
                 [] r.kind = "none" ->
                     /\ event' = <<>> /\ idx' = idx + 1
                     /\ UNCHANGED <<pc, err, clock>>
                 [] OTHER ->
                     /\ event' = r.ev /\ pc' = "put" /\ clock' = t3
                     /\ UNCHANGED <<idx, err>>
    /\ UNCHANGED <<config, data, calls, sent, rejected>>

\* line 54 when put_queue raises: nothing catches it
PutQueueRaised_Swallowed ==
    /\ pc' = "loop" /\ idx' = idx + 1 /\ err' = err
PutQueueRaised ==
    /\ Propagate("put_queue") /\ idx' = idx

\* line 54: await self.put_queue(event)
PutQueue ==
    /\ pc = "put"
    /\ \/ /\ sent' = Append(sent, event[1])
          /\ idx' = idx + 1 /\ pc' = "loop"
          /\ UNCHANGED <<err, rejected>>
       \/ /\ rejected' = Append(rejected, event[1])
          /\ PutQueueRaised
          /\ sent' = sent
    /\ UNCHANGED <<config, data, calls, event, clock, t0, lastIdx, result>>

\* lines 47, 61, 74-75: the for loop is exhausted, handle_data and
\* get_cad_feed return, run goes to sleep
EndBatch ==
    /\ pc = "loop" /\ idx > Len(calls)
    /\ pc' = "sleep"
    /\ UNCHANGED <<config, data, calls, idx, event, sent, rejected, err,
                   clock, t0, lastIdx, result>>

\* lines 72-75: asyncio.sleep returns and the while loop fetches again; the
\* finished pass's frame and locals are gone
Sleep ==
    /\ pc = "sleep"
    /\ pc' = "fetch"
    /\ data' = <<>> /\ calls' = <<>> /\ idx' = 1
    /\ event' = <<>> /\ sent' = <<>> /\ rejected' = <<>>
    /\ lastIdx' = 0 /\ result' = "" /\ t0' = 0
    /\ UNCHANGED <<config, err, clock>>

\* time passes
Tick ==
    /\ clock < MaxClock
    /\ clock' = clock + 1
    /\ UNCHANGED <<pc, config, data, calls, idx, event, sent, rejected, err,
                   t0, lastIdx, result>>

Next == Fetch \/ Transform \/ PutQueue \/ EndBatch \/ Sleep \/ Tick

Spec == Init /\ [][Next]_vars

\* the transform on its own: handle_data's loop entered with a batch of rows
\* that passed the filter, under every configuration
InitT ==
    /\ pc = "loop"
    /\ config \in Configs
    /\ data \in Batches /\ calls = data /\ idx = 1
    /\ event = <<>> /\ sent = <<>> /\ rejected = <<>>
    /\ err = "" /\ clock = 0 /\ t0 = 0 /\ lastIdx = 0 /\ result = ""

NextT == Transform \/ PutQueue \/ EndBatch \/ Tick

SpecT == InitT /\ [][NextT]_vars

-----------------------------------------------------------------------------
(* What the properties below speak of. *)

UidOf(r) == "SFPDCAD." \o ToString(r.cad_number)
SentUids == {sent[k].uid : k \in DOMAIN sent}

\* the position in calls of the row an event was made from
PosOf(e) == CHOOSE i \in DOMAIN calls : UidOf(calls[i]) = e.uid
ReceivedOf(e) == calls[PosOf(e)].received_datetime

HasCoordPair(r) ==
    /\ r.intersection_point.t = "dict"
    /\ Len(r.intersection_point.coordinates) = 2
NullCoord(r) ==
    /\ HasCoordPair(r)
    /\ \E i \in 1..2 : r.intersection_point.coordinates[i] = None_
ValidCoords(r) ==
    /\ HasCoordPair(r)
    /\ \A i \in 1..2 : r.intersection_point.coordinates[i] # None_

\* the eligibility predicate as the specification words it
Eligible(r) ==
    /\ r.intersection_point.t = "dict"
    /\ r.received_datetime[2] < 15
    /\ IsNull(r.close_datetime)

\* a row the transform turns into an event under the current configuration
Transformable(r) == call_to_cot(r, config, 0, 0, 0).kind = "event"

\* a pass is over when run sleeps, or when an exception ended run
PassOver == pc \in {"sleep", "raised"}

\* the remarks the specification words: only the values that are neither
\* null nor empty, joined in order by " - "
RECURSIVE JoinText(_)
JoinText(ts) ==
    IF ts = <<>> THEN ""
    ELSE IF Len(ts) = 1 THEN ts[1]
    ELSE ts[1] \o " - " \o JoinText(Tail(ts))
ExpectedRemarks(r, host) ==
    LET Text(x) == IF IsNull(x) \/ x.v = "" THEN <<>> ELSE <<x.v>>
    IN  JoinText(<<r.call_type_final \o " " \o r.call_type_final_desc>>
                 \o Text(r.intersection_name)
                 \o Text(r.police_district)
                 \o <<"CAD: " \o ToString(r.cad_number)>>
                 \o Text(host))

-----------------------------------------------------------------------------
(* C1: a failed fetch aborts only its own pass: run does not end, and the  *)
(* loop goes on to sleep and fetch again.                                  *)
C1_FetchFailureNotFatal ==
    err = "read_json" => pc # "raised"

(* C2: when the transform of one row of a batch fails, every other row of  *)
(* the batch that can be transformed is still submitted by the time the    *)
(* pass is over.                                                           *)
C2_OtherRecordsStillSubmitted ==
    (PassOver /\ err \notin {"read_json", "put_queue"}) =>
        \A i \in DOMAIN calls :
            Transformable(calls[i]) => UidOf(calls[i]) \in SentUids

(* C3: the filter keeps exactly the rows of the snapshot whose             *)
(* intersection_point is present, whose received_datetime has a minute     *)
(* below 15 and whose close_datetime is null, each once.                   *)
C3_FilterSelectsExactlyEligible ==
    LET eligible == {data[i] : i \in {j \in DOMAIN data : Eligible(data[j])}}
    IN  /\ Range(calls) = eligible
        /\ Len(calls) = Cardinality(eligible)

C3_Witness ==
    /\ pc = "loop" /\ Len(data) = 2 /\ Len(calls) = 1
    /\ \E i \in DOMAIN data :
          /\ ~IsNull(data[i].close_datetime)
          /\ data[i].intersection_point.t = "dict"
          /\ data[i].received_datetime[2] < 15
    /\ IsNull(calls[1].close_datetime)

(* C4: within a pass the batch is in received_datetime-descending order,   *)
(* events are submitted in that order, and when a row's transform begins   *)
(* every submission made so far is of a row before it.                     *)
C4_SubmissionInFilterOrder ==
    /\ \A i, j \in DOMAIN calls :
          Later(calls[i].received_datetime, calls[j].received_datetime)
              => i < j
    /\ \A k, l \in DOMAIN sent :
          Later(ReceivedOf(sent[k]), ReceivedOf(sent[l])) => k < l
    /\ \A k, l \in DOMAIN sent : k < l => PosOf(sent[k]) < PosOf(sent[l])
    /\ pc \in {"loop", "put"} => \A k \in DOMAIN sent : PosOf(sent[k]) < idx

C4_Witness ==
    /\ Len(sent) = 2
    /\ Later(ReceivedOf(sent[1]), ReceivedOf(sent[2]))
    /\ UidOf(data[1]) = sent[2].uid

(* C5: for a row with a non-null longitude and latitude the transform      *)
(* returns an event, under every configuration and every combination of    *)
(* present and absent optional fields.                                     *)
C5_TransformTotalOnValidCoords ==
    (lastIdx > 0 /\ ValidCoords(calls[lastIdx])) => result = "event"

(* C6: when put_queue fails, the failure ends the pass with that           *)
(* exception: the pass never goes on, or completes, as if the event had    *)
(* been accepted.                                                          *)
C6_SinkFailurePropagates ==
    rejected # <<>> =>
        /\ pc = "raised" /\ err = "put_queue"
        /\ Len(rejected) = 1
        /\ idx = lastIdx
        /\ \A k \in DOMAIN sent : PosOf(sent[k]) < idx

C6_Witness ==
    /\ rejected # <<>> /\ pc = "raised"
    /\ Len(sent) = 1 /\ Len(calls) = 2

(* C7: the remarks of an event are the " - "-join, in order, of the values *)
(* among callsign, intersection_name, police_district, "CAD: <n>" and the  *)
(* host id that are neither null nor empty, and a null or empty optional   *)
(* field never makes the transform fail.                                   *)
C7_RemarksJoinPresentFields ==
    (lastIdx > 0 /\ ValidCoords(calls[lastIdx]) /\ "COT_STALE" \in DOMAIN config)
        => /\ result = "event"
           /\ event[1].detail.remarks =
                ExpectedRemarks(calls[lastIdx],
                                Get(config, "COT_HOST_ID", DEFAULT_HOST_ID))

(* C8, as stated: an event's time and start both equal the instant T the   *)
(* transform ran at, and its stale equals T + COT_STALE.                   *)
C8_TimeStartStaleAtOneInstant ==
    result = "event" =>
        LET e == event[1]
            s == IntOf(config["COT_STALE"])
        IN  e.time = t0 /\ e.start = t0 /\ e.stale = t0 + s

(* C8, amended: time is the clock reading T taken first, start a second    *)
(* reading and stale a third reading plus COT_STALE, so                    *)
(* T = time <= start <= stale - COT_STALE <= now.                          *)
C8_TimeStartStaleInReadOrder ==
    result = "event" =>
        LET e == event[1]
            s == IntOf(config["COT_STALE"])
        IN  /\ e.time = t0
            /\ e.time <= e.start
            /\ e.start + s <= e.stale
            /\ e.stale <= clock + s

C8_Witness ==
    /\ result = "event"
    /\ event[1].start > event[1].time
    /\ event[1].stale = event[1].start + 300

(* C9: for a row whose coordinates hold a null latitude or longitude the   *)
(* transform returns None and does not raise; the pass submits nothing for *)
(* that row and moves to the next one.                                     *)
C9_NullCoordinateSkipped ==
    /\ (lastIdx > 0 /\ NullCoord(calls[lastIdx])) =>
          /\ result = "none" /\ event = <<>>
          /\ pc \in {"loop", "sleep"} /\ idx = lastIdx + 1
    /\ \A i \in DOMAIN calls :
          NullCoord(calls[i]) => UidOf(calls[i]) \notin SentUids

C9_Witness ==
    /\ Len(calls) = 2 /\ Len(sent) = 1
    /\ NullCoord(calls[1])
    /\ calls[1].intersection_point.coordinates[1] = None_
    /\ sent[1].uid = UidOf(calls[2])

(* C10: the loop has no terminal state: a pass that ends, with success or  *)
(* with a fetch or transform failure, is followed by the sleep and a new   *)
(* fetch, so run never ends on its own.                                    *)
C10_LoopHasNoTerminalState ==
    pc = "raised" => err \notin {"read_json", "call_to_cot"}

=============================================================================
